---- MODULE Spec2Model ----
(***************************************************************************)
(* A model of the editor integration class NeovimEditor                    *)
(* (src/browser/src/Editor/NeovimEditor.tsx).                              *)
(*                                                                         *)
(* The class is a set of handlers run to completion on one event loop.     *)
(* Each handler is one action.  The collaborators whose code is not in the *)
(* source tree (the UI store behind UI.Actions, the screen model, the      *)
(* editor process, the config service, the window) are modelled by what    *)
(* their names say.                                                        *)
(***************************************************************************)
EXTENDS Integers, Sequences, FiniteSets, TLC

(* ------------------------------ bounds -------------------------------- *)

MaxPos == 1        \* screen positions are (0..MaxPos) \X (0..MaxPos)
MaxTimers == 2     \* timer handles the window can have outstanding at once
MaxFrames == 2     \* animation-frame callbacks that can be pending at once
MaxInit == 2       \* calls of init() from outside
MaxLog == 2        \* entries kept by the UI log
MaxQueries == 2    \* working-directory queries in flight

(* ------------------------------ inputs -------------------------------- *)

Modes == {"normal", "insert", "cmdline", "visual"}
Colors == {"white", "black"}
Positions == (0..MaxPos) \X (0..MaxPos)
EventNames == {"BufEnter", "DirChanged", "BufWritePost"}
Messages == {"m1", "m2"}
Dirs == {"/a", "/b"}
ConfigValues == [cursorLine : BOOLEAN, cursorColumn : BOOLEAN]
Keys == {"<f3>", "<esc>", "<enter>", "<C-v>", "<C-n>", "<C-p>", "<C-P>",
         "<f12>", "<C-pageup>", "<C-pagedown>", "a"}
Sizes == [width : {800, 1024}, height : {600, 768}]
ScreenActions ==
    [type : {"CURSOR_GOTO"}, position : Positions]
        \cup [type : {"UPDATE_FG", "UPDATE_BG"}, color : Colors]
        \cup [type : {"CHANGE_MODE"}, mode : {"normal", "insert"}]
        \cup [type : {"PUT"}]

NoTimer == 0       \* the null of _pendingTimeout
NoMode == "none"   \* no mode-change handled yet
NoQuery == 0       \* no working-directory query issued yet
NoDir == "none"    \* the latest query has not resolved yet

(* ------------------------------- state -------------------------------- *)

VARIABLES
    constructed,          \* the constructor has run
    config,               \* the values held by the config service
    cursorLine,           \* _cursorLine
    cursorColumn,         \* _cursorColumn
    pendingTimeout,       \* _pendingTimeout (NoTimer or a timer handle)
    element,              \* _element has been assigned by render(element)
    elementSize,          \* offsetWidth and offsetHeight of the host element
    errorStartingNeovim,  \* _errorStartingNeovim
    ui,                   \* the UI store written through UI.Actions
    screen,               \* the screen model (_screen)
    errorDetails,         \* the error overlay shows its details
    installHelp,          \* the install-help screen has been rendered
    rendererStarted,      \* _renderer.start(element) has been called
    timers,               \* timer handles outstanding in the window
    frames,               \* animation-frame callbacks pending in the window
    startCalls,           \* calls of _neovimInstance.start
    initCalls,            \* calls of init() from outside
    startErrors,          \* "error" events emitted by the editor process
    queries,              \* working-directory queries in flight
    cwd,                  \* the process working directory
    latestQuery,          \* the query issued by the latest DirChanged event
    latestDir,            \* the directory returned for that query
    lastMode,             \* newMode of the latest mode-change event
    event,                \* the event handled by the latest handler
    calls                 \* the calls that handler made, in order

vars == <<constructed, config, cursorLine, cursorColumn, pendingTimeout,
          element, elementSize, errorStartingNeovim, ui, screen, errorDetails,
          installHelp, rendererStarted, timers, frames, startCalls,
          initCalls, startErrors, queries, cwd, latestQuery, latestDir,
          lastMode, event, calls>>

(* ----------------------- UI store (UI.Actions) ------------------------ *)

SetMode(u, m) == [u EXCEPT !.mode = m]
ShowCursorLine(u) == [u EXCEPT !.cursorLineVisible = TRUE]
HideCursorLine(u) == [u EXCEPT !.cursorLineVisible = FALSE]
ShowCursorColumn(u) == [u EXCEPT !.cursorColumnVisible = TRUE]
HideCursorColumn(u) == [u EXCEPT !.cursorColumnVisible = FALSE]
ShowPopupMenu(u) == [u EXCEPT !.popupMenuVisible = TRUE]
HidePopupMenu(u) == [u EXCEPT !.popupMenuVisible = FALSE]
ShowCompletions(u) == [u EXCEPT !.completionsVisible = TRUE]
HideCompletions(u) == [u EXCEPT !.completionsVisible = FALSE]
ShowSignatureHelp(u) == [u EXCEPT !.signatureHelpVisible = TRUE]
HideSignatureHelp(u) == [u EXCEPT !.signatureHelpVisible = FALSE]
ShowQuickInfo(u) == [u EXCEPT !.quickInfoVisible = TRUE]
HideQuickInfo(u) == [u EXCEPT !.quickInfoVisible = FALSE]
SetColors(u, fg, bg) ==
    [u EXCEPT !.foregroundColor = fg, !.backgroundColor = bg]
SetCursorPosition(u, s) == [u EXCEPT !.cursorPosition = s.cursor]
MakeLog(u, entry) == [u EXCEPT !.logs = Append(u.logs, entry)]

(* --------------------------- screen model ----------------------------- *)

Dispatch(s, action) ==
    CASE action.type = "CURSOR_GOTO" -> [s EXCEPT !.cursor = action.position]
      [] action.type = "UPDATE_FG" -> [s EXCEPT !.foregroundColor = action.color]
      [] action.type = "UPDATE_BG" -> [s EXCEPT !.backgroundColor = action.color]
      [] action.type = "CHANGE_MODE" -> [s EXCEPT !.mode = action.mode]
      [] OTHER -> s

(* ------------------------------ helpers ------------------------------- *)

Ev(op, arg) == [op |-> op, arg |-> arg]

(* --------------------------- initial state ---------------------------- *)

InitUI ==
    [mode |-> NoMode,
     cursorLineVisible |-> FALSE,
     cursorColumnVisible |-> FALSE,
     popupMenuVisible |-> FALSE,
     completionsVisible |-> FALSE,
     signatureHelpVisible |-> FALSE,
     quickInfoVisible |-> FALSE,
     foregroundColor |-> "unset",
     backgroundColor |-> "unset",
     cursorPosition |-> <<0, 0>>,
     logs |-> <<>>]

InitScreen ==
    [cursor |-> <<0, 0>>,
     foregroundColor |-> "white",
     backgroundColor |-> "black",
     mode |-> "normal"]

Init ==
    /\ constructed = FALSE
    /\ config \in ConfigValues
    /\ cursorLine = FALSE
    /\ cursorColumn = FALSE
    /\ pendingTimeout = NoTimer
    /\ element = FALSE
    /\ elementSize = [width |-> 800, height |-> 600]
    /\ errorStartingNeovim = FALSE
    /\ ui = InitUI
    /\ screen = InitScreen
    /\ errorDetails = FALSE
    /\ installHelp = FALSE
    /\ rendererStarted = FALSE
    /\ timers = {}
    /\ frames = 0
    /\ startCalls = 0
    /\ initCalls = 0
    /\ startErrors = 0
    /\ queries = {}
    /\ cwd = "/a"
    /\ latestQuery = NoQuery
    /\ latestDir = NoDir
    /\ lastMode = NoMode
    /\ event = Ev("none", "")
    /\ calls = <<>>

(* ------------------- the object and its surroundings ------------------ *)

\* The state a handler starts from, as one value the methods transform.
Self ==
    [constructed |-> constructed, config |-> config,
     cursorLine |-> cursorLine, cursorColumn |-> cursorColumn,
     pendingTimeout |-> pendingTimeout, element |-> element,
     elementSize |-> elementSize,
     errorStartingNeovim |-> errorStartingNeovim, ui |-> ui,
     screen |-> screen, errorDetails |-> errorDetails,
     installHelp |-> installHelp, rendererStarted |-> rendererStarted,
     timers |-> timers, frames |-> frames, startCalls |-> startCalls,
     initCalls |-> initCalls, startErrors |-> startErrors,
     queries |-> queries, cwd |-> cwd, latestQuery |-> latestQuery,
     latestDir |-> latestDir, lastMode |-> lastMode,
     event |-> event, calls |-> calls]

\* A handler starts: it is the latest event and has made no call yet.
Begin(e) == [Self EXCEPT !.event = e, !.calls = <<>>]

\* The handler calls a collaborator.
Call(s, name, arg) ==
    [s EXCEPT !.calls = Append(@, [name |-> name, arg |-> arg])]

\* The handler calls UI.Actions.<name>, which turns the UI store into u.
Act(s, name, u) == Call([s EXCEPT !.ui = u], name, "")

\* The counters stay inside the bounds.
Bounded(s) ==
    /\ s.frames <= MaxFrames
    /\ Cardinality(s.timers) <= MaxTimers
    /\ s.initCalls <= MaxInit
    /\ Len(s.ui.logs) <= MaxLog
    /\ Cardinality(s.queries) <= MaxQueries

\* The handler returns: its result is the next state.
Commit(s) ==
    /\ Bounded(s)
    /\ constructed' = s.constructed
    /\ config' = s.config
    /\ cursorLine' = s.cursorLine
    /\ cursorColumn' = s.cursorColumn
    /\ pendingTimeout' = s.pendingTimeout
    /\ element' = s.element
    /\ elementSize' = s.elementSize
    /\ errorStartingNeovim' = s.errorStartingNeovim
    /\ ui' = s.ui
    /\ screen' = s.screen
    /\ errorDetails' = s.errorDetails
    /\ installHelp' = s.installHelp
    /\ rendererStarted' = s.rendererStarted
    /\ timers' = s.timers
    /\ frames' = s.frames
    /\ startCalls' = s.startCalls
    /\ initCalls' = s.initCalls
    /\ startErrors' = s.startErrors
    /\ queries' = s.queries
    /\ cwd' = s.cwd
    /\ latestQuery' = s.latestQuery
    /\ latestDir' = s.latestDir
    /\ lastMode' = s.lastMode
    /\ event' = s.event
    /\ calls' = s.calls

\* window.setTimeout: a handle no outstanding timer has
SetTimeout(s) ==
    LET free == (1..(MaxTimers + 1)) \ s.timers
        t == CHOOSE h \in free : \A o \in free : h <= o
    IN [Call(s, "setTimeout", "") EXCEPT !.timers = @ \cup {t}, !.pendingTimeout = t]

\* window.clearTimeout(handle)
ClearTimeout(s, handle) ==
    [Call(s, "clearTimeout", "") EXCEPT !.timers = @ \ {handle}]

\* window.requestAnimationFrame
RequestAnimationFrame(s) ==
    [Call(s, "requestAnimationFrame", "") EXCEPT !.frames = @ + 1]

(* ------------------------------ methods ------------------------------- *)

\* _onUpdate without the cursor-position update
OnUpdate_NoCursor(s) ==
    IF s.pendingTimeout # NoTimer
    THEN [ClearTimeout(s, s.pendingTimeout) EXCEPT !.pendingTimeout = NoTimer]
    ELSE s

\* _onUpdate
OnUpdate(s) ==
    LET s1 == Act(s, "UI.setCursorPosition", SetCursorPosition(s.ui, s.screen))
    IN IF s1.pendingTimeout # NoTimer
       THEN [ClearTimeout(s1, s1.pendingTimeout) EXCEPT !.pendingTimeout = NoTimer]
       ELSE s1

\* _onConfigChanged
OnConfigChanged(s) ==
    LET s1 == [s EXCEPT !.cursorLine = s.config.cursorLine,
                        !.cursorColumn = s.config.cursorColumn]
        s2 == Call(Call(s1, "UI.setCursorLineOpacity", ""),
                   "UI.setCursorColumnOpacity", "")
        s3 == IF s2.cursorLine
              THEN Act(s2, "UI.showCursorLine", ShowCursorLine(s2.ui))
              ELSE s2
        s4 == IF s3.cursorColumn
              THEN Act(s3, "UI.showCursorColumn", ShowCursorColumn(s3.ui))
              ELSE s3
    IN OnUpdate(Call(s4, "neovim.setFont", ""))

\* _onResize sending the size before it dirties the cells
OnResize_ResizeFirst(s) ==
    IF s.element
    THEN Call(Call(Call(s, "neovim.resize", s.elementSize),
                   "deltaRegionManager.dirtyAllCells", ""),
              "renderer.onResize", "")
    ELSE s

\* _onResize
OnResize(s) ==
    IF s.element
    THEN Call(Call(Call(s, "deltaRegionManager.dirtyAllCells", ""),
                   "neovim.resize", s.elementSize),
              "renderer.onResize", "")
    ELSE s

\* _render without the next frame
Render_NoNextFrame(s) ==
    LET s1 == IF s.pendingTimeout # NoTimer
              THEN Act(s, "UI.setCursorPosition", SetCursorPosition(s.ui, s.screen))
              ELSE s
        s2 == Call(s1, "renderer.update", "")
    IN Call(s2, "deltaRegionManager.cleanUpRenderedCells", "")

\* _render
Render(s) ==
    LET s1 == IF s.pendingTimeout # NoTimer
              THEN Act(s, "UI.setCursorPosition", SetCursorPosition(s.ui, s.screen))
              ELSE s
        s2 == Call(s1, "renderer.update", "")
        s3 == Call(s2, "deltaRegionManager.cleanUpRenderedCells", "")
    IN RequestAnimationFrame(s3)

\* _onModeChanged setting the mode only in the branches it has
OnModeChanged_KnownModes(s, newMode) ==
    LET s1 == IF newMode \in {"normal", "insert", "cmdline"}
              THEN Act(s, "UI.setMode", SetMode(s.ui, newMode))
              ELSE s
    IN IF newMode = "insert"
       THEN [Call(s1, "errorOverlay.hideDetails", "") EXCEPT !.errorDetails = FALSE]
       ELSE [Call(s1, "errorOverlay.showDetails", "") EXCEPT !.errorDetails = TRUE]

\* _onModeChanged showing the error details in normal mode only
OnModeChanged_DetailsInNormal(s, newMode) ==
    LET s1 == Act(s, "UI.setMode", SetMode(s.ui, newMode))
    IN IF newMode = "insert"
       THEN [Call(s1, "errorOverlay.hideDetails", "") EXCEPT !.errorDetails = FALSE]
       ELSE IF newMode = "normal"
       THEN [Call(s1, "errorOverlay.showDetails", "") EXCEPT !.errorDetails = TRUE]
       ELSE s1

\* _onModeChanged
OnModeChanged(s, newMode) ==
    LET s1 == Act(s, "UI.setMode", SetMode(s.ui, newMode))
        showLine(t) == IF t.cursorLine
                       THEN Act(t, "UI.showCursorLine", ShowCursorLine(t.ui))
                       ELSE t
        showColumn(t) == IF t.cursorColumn
                         THEN Act(t, "UI.showCursorColumn", ShowCursorColumn(t.ui))
                         ELSE t
        hideCompletions(t) == Act(t, "UI.hideCompletions", HideCompletions(t.ui))
        hideQuickInfo(t) == Act(t, "UI.hideQuickInfo", HideQuickInfo(t.ui))
        s2 == CASE newMode = "normal" ->
                     LET a == hideCompletions(showColumn(showLine(s1)))
                     IN Act(a, "UI.hideSignatureHelp", HideSignatureHelp(a.ui))
                [] newMode = "insert" ->
                     showColumn(showLine(hideQuickInfo(s1)))
                [] newMode = "cmdline" ->
                     LET a == Act(s1, "UI.hideCursorColumn", HideCursorColumn(s1.ui))
                         b == Act(a, "UI.hideCursorLine", HideCursorLine(a.ui))
                     IN hideQuickInfo(hideCompletions(b))
                [] OTHER -> s1
    IN IF newMode = "insert"
       THEN [Call(s2, "errorOverlay.hideDetails", "") EXCEPT !.errorDetails = FALSE]
       ELSE [Call(s2, "errorOverlay.showDetails", "") EXCEPT !.errorDetails = TRUE]

\* _onVimEvent with the hidePopupMenu call lost
OnVimEvent_KeepPopup(s, eventName) ==
    LET s1 == Call(Call(Call(Call(s, "errorOverlay.onVimEvent", eventName),
                             "liveEvaluationOverlay.onVimEvent", eventName),
                        "scrollbarOverlay.onVimEvent", eventName),
                   "tasks.onEvent", "")
    IN IF eventName = "BufEnter"
       THEN LET a == Act(s1, "UI.hideCompletions", HideCompletions(s1.ui))
                c == Act(a, "UI.hideSignatureHelp", HideSignatureHelp(a.ui))
            IN Act(c, "UI.hideQuickInfo", HideQuickInfo(c.ui))
       ELSE s1

\* _onVimEvent
OnVimEvent(s, eventName) ==
    LET s1 == Call(Call(Call(Call(s, "errorOverlay.onVimEvent", eventName),
                             "liveEvaluationOverlay.onVimEvent", eventName),
                        "scrollbarOverlay.onVimEvent", eventName),
                   "tasks.onEvent", "")
        s2 == IF eventName = "BufEnter"
              THEN LET a == Act(s1, "UI.hideCompletions", HideCompletions(s1.ui))
                       b == Act(a, "UI.hidePopupMenu", HidePopupMenu(a.ui))
                       c == Act(b, "UI.hideSignatureHelp", HideSignatureHelp(b.ui))
                   IN Act(c, "UI.hideQuickInfo", HideQuickInfo(c.ui))
              ELSE s1
    IN IF eventName = "DirChanged"
       THEN LET free == (1..(MaxQueries + 1)) \ s2.queries
                q == CHOOSE n \in free : \A o \in free : n <= o
            IN [Call(s2, "neovim.getCurrentWorkingDirectory", "")
                    EXCEPT !.queries = @ \cup {q}]
       ELSE s2

(* ------------------------------ handlers ------------------------------ *)

\* new NeovimEditor(...): the constructor body after the field initialisers
Constructor ==
    /\ ~constructed
    /\ Commit([OnConfigChanged(Render(Begin(Ev("constructor", ""))))
                   EXCEPT !.constructed = TRUE])

\* init(filesToOpen)
EditorInit ==
    /\ constructed
    /\ LET s == Begin(Ev("init", ""))
       IN Commit([Call(s, "neovim.start", "")
                      EXCEPT !.initCalls = @ + 1, !.startCalls = @ + 1])

\* render(element)
RenderElement ==
    /\ constructed
    /\ LET s1 == [Begin(Ev("render", "")) EXCEPT !.element = TRUE]
           s2 == [Call(s1, "renderer.start", "") EXCEPT !.rendererStarted = TRUE]
       IN Commit(OnResize(s2))

\* the "mouse" listener registered by render(element)
OnMouse ==
    /\ element
    /\ LET s == Begin(Ev("mouse", ""))
       IN Commit(Call(Act(s, "UI.hideCompletions", HideCompletions(s.ui)),
                      "neovim.input", "mouse"))

\* the "error" listener retrying the start
OnError_Retry(s) ==
    LET s1 == [s EXCEPT !.errorStartingNeovim = TRUE]
        s2 == IF s1.element
              THEN [Call(s1, "ReactDOM.render", "InstallHelp") EXCEPT !.installHelp = TRUE]
              ELSE Call(s1, "throw", "TypeError")
    IN [Call(s2, "neovim.start", "") EXCEPT !.startCalls = @ + 1]

\* the "error" listener: the editor process failed to start
OnError(s) ==
    LET s1 == [s EXCEPT !.errorStartingNeovim = TRUE]
    IN IF s1.element
       THEN [Call(s1, "ReactDOM.render", "InstallHelp") EXCEPT !.installHelp = TRUE]
       ELSE Call(s1, "throw", "TypeError")

NeovimError ==
    /\ startErrors < startCalls
    /\ Commit(OnError([Begin(Ev("error", "")) EXCEPT !.startErrors = @ + 1]))

\* the "event" listener
VimEvent(eventName) ==
    /\ startCalls > 0
    /\ LET s == OnVimEvent(Begin(Ev("event", eventName)), eventName)
       IN Commit(IF s.queries # queries
                 THEN [s EXCEPT !.latestQuery = CHOOSE q \in s.queries \ queries : TRUE,
                                !.latestDir = NoDir]
                 ELSE s)

\* the callback of getCurrentWorkingDirectory().then
OnCwd(s, newDirectory) ==
    [Call(s, "process.chdir", newDirectory) EXCEPT !.cwd = newDirectory]

\* a working-directory query resolves with newDirectory
ResolveCwd(q, newDirectory) ==
    /\ q \in queries
    /\ LET s == OnCwd([Begin(Ev("cwd", newDirectory)) EXCEPT !.queries = @ \ {q}],
                      newDirectory)
       IN Commit(IF q = latestQuery THEN [s EXCEPT !.latestDir = newDirectory] ELSE s)

\* the "action" listener scheduling a timer for every action
OnAction_AlwaysSchedule(s, action) ==
    LET s1 == Call(s, "renderer.onAction", action.type)
        s2 == [Call(s1, "screen.dispatch", action.type)
                   EXCEPT !.screen = Dispatch(@, action)]
        s3 == Act(s2, "UI.setColors",
                  SetColors(s2.ui, s2.screen.foregroundColor,
                            s2.screen.backgroundColor))
    IN SetTimeout(s3)

\* the "action" listener reading the colors before the dispatch
OnAction_ColorsFirst(s, action) ==
    LET s1 == Call(s, "renderer.onAction", action.type)
        s2 == Act(s1, "UI.setColors",
                  SetColors(s1.ui, s1.screen.foregroundColor,
                            s1.screen.backgroundColor))
        s3 == [Call(s2, "screen.dispatch", action.type)
                   EXCEPT !.screen = Dispatch(@, action)]
    IN IF s3.pendingTimeout = NoTimer THEN SetTimeout(s3) ELSE s3

\* the "action" listener
OnAction(s, action) ==
    LET s1 == Call(s, "renderer.onAction", action.type)
        s2 == [Call(s1, "screen.dispatch", action.type)
                   EXCEPT !.screen = Dispatch(@, action)]
        s3 == Act(s2, "UI.setColors",
                  SetColors(s2.ui, s2.screen.foregroundColor,
                            s2.screen.backgroundColor))
    IN IF s3.pendingTimeout = NoTimer THEN SetTimeout(s3) ELSE s3

NeovimAction(action) ==
    /\ startCalls > 0
    /\ Commit(OnAction(Begin(Ev("action", action.type)), action))

\* the timer set by the "action" listener fires
TimerFire(t) ==
    /\ t \in timers
    /\ Commit(OnUpdate([Begin(Ev("timer", "")) EXCEPT !.timers = @ \ {t}]))

\* the animation-frame callback runs
Frame ==
    /\ frames > 0
    /\ Commit(Render([Begin(Ev("frame", "")) EXCEPT !.frames = @ - 1]))

\* the "logInfo", "logWarning" and "logError" listeners
LogEntryType(listener) ==
    CASE listener = "logInfo" -> "info"
      [] listener = "logWarning" -> "warning"
      [] listener = "logError" -> "error"

OnLog_AllInfo(s, type, message) ==
    Act(s, "UI.makeLog",
        MakeLog(s.ui, [type |-> "info", message |-> message,
                       details |-> IF type = "logError" THEN "stack" ELSE "null"]))

OnLog(s, type, message) ==
    Act(s, "UI.makeLog",
        MakeLog(s.ui, [type |-> LogEntryType(type), message |-> message,
                       details |-> IF type = "logError" THEN "stack" ELSE "null"]))

NeovimLog(type, message) ==
    /\ startCalls > 0
    /\ Commit(OnLog(Begin(Ev(type, message)), type, message))

\* the "mode-change" listener
ModeChanged(newMode) ==
    /\ startCalls > 0
    /\ Commit([OnModeChanged(Begin(Ev("mode-change", newMode)), newMode)
                   EXCEPT !.lastMode = newMode])

\* the config service calls the registered listener after a change
ConfigChanged(c) ==
    /\ constructed
    /\ Commit(OnConfigChanged([Begin(Ev("config", "")) EXCEPT !.config = c]))

\* the window "resize" listener, the host element having taken size
Resize(size) ==
    /\ constructed
    /\ Commit(OnResize([Begin(Ev("resize", "")) EXCEPT !.elementSize = size]))

\* UI.Selectors
IsPopupMenuOpen(u) == u.popupMenuVisible
AreCompletionsVisible(u) == u.completionsVisible

\* the "keydown" listener with the popup menu asked before <f3>
OnKeyDown_PopupFirst(s, key) ==
    IF IsPopupMenuOpen(s.ui)
    THEN CASE key = "<esc>" -> Act(s, "UI.hidePopupMenu", HidePopupMenu(s.ui))
           [] key = "<enter>" -> Call(s, "UI.selectMenuItem", "false")
           [] key = "<C-v>" -> Call(s, "UI.selectMenuItem", "true")
           [] key = "<C-n>" -> Call(s, "UI.nextMenuItem", "")
           [] key = "<C-p>" -> Call(s, "UI.previousMenuItem", "")
           [] OTHER -> s
    ELSE IF key = "<f3>"
    THEN Call(s, "formatter.formatBuffer", "")
    ELSE IF AreCompletionsVisible(s.ui) /\ key = "<enter>"
    THEN Call(s, "autoCompletion.complete", "")
    ELSE IF AreCompletionsVisible(s.ui) /\ key = "<C-n>"
    THEN Call(s, "UI.nextCompletion", "")
    ELSE IF AreCompletionsVisible(s.ui) /\ key = "<C-p>"
    THEN Call(s, "UI.previousCompletion", "")
    ELSE IF key = "<f12>"
    THEN Call(s, "commandManager.executeCommand", "oni.editor.gotoDefinition")
    ELSE IF key = "<C-p>" /\ s.screen.mode = "normal"
    THEN Call(s, "quickOpen.show", "")
    ELSE IF key = "<C-P>" /\ s.screen.mode = "normal"
    THEN Call(s, "tasks.show", "")
    ELSE IF key = "<C-pageup>"
    THEN Call(s, "multiProcess.focusPreviousInstance", "")
    ELSE IF key = "<C-pagedown>"
    THEN Call(s, "multiProcess.focusNextInstance", "")
    ELSE Call(s, "neovim.input", key)

\* the "keydown" listener with the returns of the completion branch lost
OnKeyDown_FallThrough(s, key) ==
    IF key = "<f3>"
    THEN Call(s, "formatter.formatBuffer", "")
    ELSE IF IsPopupMenuOpen(s.ui)
    THEN CASE key = "<esc>" -> Act(s, "UI.hidePopupMenu", HidePopupMenu(s.ui))
           [] key = "<enter>" -> Call(s, "UI.selectMenuItem", "false")
           [] key = "<C-v>" -> Call(s, "UI.selectMenuItem", "true")
           [] key = "<C-n>" -> Call(s, "UI.nextMenuItem", "")
           [] key = "<C-p>" -> Call(s, "UI.previousMenuItem", "")
           [] OTHER -> s
    ELSE LET s1 == IF AreCompletionsVisible(s.ui) /\ key = "<enter>"
                   THEN Call(s, "autoCompletion.complete", "")
                   ELSE IF AreCompletionsVisible(s.ui) /\ key = "<C-n>"
                   THEN Call(s, "UI.nextCompletion", "")
                   ELSE IF AreCompletionsVisible(s.ui) /\ key = "<C-p>"
                   THEN Call(s, "UI.previousCompletion", "")
                   ELSE s
         IN IF key = "<f12>"
            THEN Call(s1, "commandManager.executeCommand", "oni.editor.gotoDefinition")
            ELSE IF key = "<C-p>" /\ s1.screen.mode = "normal"
            THEN Call(s1, "quickOpen.show", "")
            ELSE IF key = "<C-P>" /\ s1.screen.mode = "normal"
            THEN Call(s1, "tasks.show", "")
            ELSE IF key = "<C-pageup>"
            THEN Call(s1, "multiProcess.focusPreviousInstance", "")
            ELSE IF key = "<C-pagedown>"
            THEN Call(s1, "multiProcess.focusNextInstance", "")
            ELSE Call(s1, "neovim.input", key)

\* the "keydown" listener; the menu and completion selections are calls
\* that leave the visibilities as they are
OnKeyDown(s, key) ==
    IF key = "<f3>"
    THEN Call(s, "formatter.formatBuffer", "")
    ELSE IF IsPopupMenuOpen(s.ui)
    THEN CASE key = "<esc>" -> Act(s, "UI.hidePopupMenu", HidePopupMenu(s.ui))
           [] key = "<enter>" -> Call(s, "UI.selectMenuItem", "false")
           [] key = "<C-v>" -> Call(s, "UI.selectMenuItem", "true")
           [] key = "<C-n>" -> Call(s, "UI.nextMenuItem", "")
           [] key = "<C-p>" -> Call(s, "UI.previousMenuItem", "")
           [] OTHER -> s
    ELSE IF AreCompletionsVisible(s.ui) /\ key = "<enter>"
    THEN Call(s, "autoCompletion.complete", "")
    ELSE IF AreCompletionsVisible(s.ui) /\ key = "<C-n>"
    THEN Call(s, "UI.nextCompletion", "")
    ELSE IF AreCompletionsVisible(s.ui) /\ key = "<C-p>"
    THEN Call(s, "UI.previousCompletion", "")
    ELSE IF key = "<f12>"
    THEN Call(s, "commandManager.executeCommand", "oni.editor.gotoDefinition")
    ELSE IF key = "<C-p>" /\ s.screen.mode = "normal"
    THEN Call(s, "quickOpen.show", "")
    ELSE IF key = "<C-P>" /\ s.screen.mode = "normal"
    THEN Call(s, "tasks.show", "")
    ELSE IF key = "<C-pageup>"
    THEN Call(s, "multiProcess.focusPreviousInstance", "")
    ELSE IF key = "<C-pagedown>"
    THEN Call(s, "multiProcess.focusNextInstance", "")
    ELSE Call(s, "neovim.input", key)

KeyDown(key) ==
    /\ constructed
    /\ Commit(OnKeyDown(Begin(Ev("keydown", key)), key))

\* the "signature-help-response" listener
SignatureHelpResponse(err) ==
    /\ constructed
    /\ LET s == Begin(Ev("signature-help-response", ""))
       IN Commit(IF err
                 THEN Act(s, "UI.hideSignatureHelp", HideSignatureHelp(s.ui))
                 ELSE Act(s, "UI.showSignatureHelp", ShowSignatureHelp(s.ui)))

\* the services outside this class open the popup menu, the completion
\* list and the quick info
ShowOverlay(name) ==
    /\ constructed
    /\ LET s == Begin(Ev("show", name))
       IN Commit(CASE name = "popupMenu" ->
                        Act(s, "UI.showPopupMenu", ShowPopupMenu(s.ui))
                   [] name = "completions" ->
                        Act(s, "UI.showCompletions", ShowCompletions(s.ui))
                   [] name = "quickInfo" ->
                        Act(s, "UI.showQuickInfo", ShowQuickInfo(s.ui)))

Overlays == {"popupMenu", "completions", "quickInfo"}
LogTypes == {"logInfo", "logWarning", "logError"}

(* --------------------------- specifications --------------------------- *)

Next ==
    \/ Constructor
    \/ EditorInit
    \/ RenderElement
    \/ OnMouse
    \/ NeovimError
    \/ \E n \in EventNames : VimEvent(n)
    \/ \E q \in 1..(MaxQueries + 1), d \in Dirs : ResolveCwd(q, d)
    \/ \E a \in ScreenActions : NeovimAction(a)
    \/ \E t \in 1..(MaxTimers + 1) : TimerFire(t)
    \/ Frame
    \/ \E t \in LogTypes, m \in Messages : NeovimLog(t, m)
    \/ \E m \in Modes : ModeChanged(m)
    \/ \E c \in ConfigValues : ConfigChanged(c)
    \/ \E z \in Sizes : Resize(z)
    \/ \E e \in BOOLEAN : SignatureHelpResponse(e)
    \/ \E o \in Overlays : ShowOverlay(o)
    \/ \E k \in Keys : KeyDown(k)

Spec == Init /\ [][Next]_vars

(***************************************************************************)
(* Spec is the whole class.  The specifications below are its slices: each *)
(* keeps the handlers that write the variables its properties read, some   *)
(* with fewer inputs, and leaves the rest of the state where Init put it.  *)
(***************************************************************************)

\* the view: mode, cursor line and column, overlays
NextView ==
    \/ Constructor
    \/ EditorInit
    \/ RenderElement
    \/ OnMouse
    \/ Resize(elementSize)
    \/ \E m \in Modes : ModeChanged(m)
    \/ \E c \in ConfigValues : ConfigChanged(c)
    \/ \E n \in EventNames \ {"DirChanged"} : VimEvent(n)
    \/ \E e \in BOOLEAN : SignatureHelpResponse(e)
    \/ \E o \in Overlays : ShowOverlay(o)
    \/ \E k \in {"<esc>", "<enter>", "a"} : KeyDown(k)

SpecView == Init /\ [][NextView]_vars

\* the life cycle and the render loop, next to a screen action that leaves
\* the screen as it is and its timer
NextLife ==
    \/ Constructor
    \/ EditorInit
    \/ RenderElement
    \/ OnMouse
    \/ NeovimError
    \/ \E z \in Sizes : Resize(z)
    \/ Frame
    \/ NeovimAction([type |-> "PUT"])
    \/ \E t \in 1..(MaxTimers + 1) : TimerFire(t)
    \/ \E c \in ConfigValues : ConfigChanged(c)

SpecLife == Init /\ [][NextLife]_vars

\* the screen actions, the update timer and the render loop
NextTimer ==
    \/ Constructor
    \/ EditorInit
    \/ Frame
    \/ \E a \in ScreenActions : NeovimAction(a)
    \/ \E t \in 1..(MaxTimers + 1) : TimerFire(t)
    \/ \E c \in ConfigValues : ConfigChanged(c)

SpecTimer == Init /\ [][NextTimer]_vars

\* the update timer alone: the screen actions that move the cursor or leave
\* it, and the config listener called with the values as they are
NextUpdate ==
    \/ Constructor
    \/ EditorInit
    \/ Frame
    \/ \E a \in {x \in ScreenActions : x.type \in {"CURSOR_GOTO", "PUT"}} :
           NeovimAction(a)
    \/ \E t \in 1..(MaxTimers + 1) : TimerFire(t)
    \/ ConfigChanged(config)

\* timers and animation frames are run by the window's event loop
LiveUpdate ==
    /\ Init /\ [][NextUpdate]_vars
    /\ WF_vars(\E t \in 1..(MaxTimers + 1) : TimerFire(t))
    /\ WF_vars(Frame)

\* every kind of event next to the mode-change: the log listeners on an
\* empty log, the screen actions that change the screen's mode, two keys
NextEvents ==
    \/ Constructor
    \/ EditorInit
    \/ Resize(elementSize)
    \/ Frame
    \/ \E m \in Modes : ModeChanged(m)
    \/ \E c \in ConfigValues : ConfigChanged(c)
    \/ VimEvent("BufEnter")
    \/ \E o \in Overlays : ShowOverlay(o)
    \/ \E k \in {"<esc>", "a"} : KeyDown(k)
    \/ \E t \in LogTypes, m \in Messages : ui.logs = <<>> /\ NeovimLog(t, m)
    \/ \E a \in {x \in ScreenActions : x.type = "CHANGE_MODE"} : NeovimAction(a)
    \/ \E t \in 1..(MaxTimers + 1) : TimerFire(t)

SpecEvents == Init /\ [][NextEvents]_vars

\* the UI log, next to the handlers that write what a log event must keep
NextLog ==
    \/ Constructor
    \/ EditorInit
    \/ \E m \in Modes : ModeChanged(m)
    \/ ShowOverlay("completions")
    \/ \E t \in LogTypes, m \in Messages : NeovimLog(t, m)
    \/ \E a \in {x \in ScreenActions : x.type = "CHANGE_MODE"} : NeovimAction(a)
    \/ \E t \in 1..(MaxTimers + 1) : TimerFire(t)

SpecLog == Init /\ [][NextLog]_vars

\* the keyboard: the keys, the two overlays and the two modes the listener
\* asks for
NextKeys ==
    \/ Constructor
    \/ EditorInit
    \/ \E k \in Keys : KeyDown(k)
    \/ \E o \in {"popupMenu", "completions"} : ShowOverlay(o)
    \/ \E m \in Modes : ModeChanged(m)
    \/ \E a \in {x \in ScreenActions : x.type = "CHANGE_MODE"} : NeovimAction(a)
    \/ \E t \in 1..(MaxTimers + 1) : TimerFire(t)

SpecKeys == Init /\ [][NextKeys]_vars

\* the working directory: the editor events and the queries they issue
NextDir ==
    \/ Constructor
    \/ EditorInit
    \/ \E n \in EventNames : VimEvent(n)
    \/ \E q \in 1..(MaxQueries + 1), d \in Dirs : ResolveCwd(q, d)

SpecDir == Init /\ [][NextDir]_vars

(* ------------------------------ properties ---------------------------- *)

IsEvent(op, arg) == event.op = op /\ event.arg = arg

\* the positions at which the latest handler called name
CallsOf(name) == {i \in DOMAIN calls : calls[i].name = name}

\* C1: after a mode-change to "insert" the cursor line is visible iff the
\* config flag editor.cursorLine is true, and the cursor column is visible
\* iff editor.cursorColumn is true.
C1_InsertFollowsConfig ==
    IsEvent("mode-change", "insert") =>
        /\ ui.cursorLineVisible <=> config.cursorLine
        /\ ui.cursorColumnVisible <=> config.cursorColumn

OverlayVisibilities(u) ==
    <<u.popupMenuVisible, u.completionsVisible,
      u.signatureHelpVisible, u.quickInfoVisible>>

\* C2: right after a "BufEnter" editor event the popup menu, the completion
\* list, the signature help and the quick info are all hidden; an editor
\* event with another name changes none of the four.
C2_BufEnterHidesOverlays ==
    /\ [](IsEvent("event", "BufEnter") =>
            OverlayVisibilities(ui) = <<FALSE, FALSE, FALSE, FALSE>>)
    /\ [][event'.op = "event" /\ event'.arg # "BufEnter" =>
            OverlayVisibilities(ui') = OverlayVisibilities(ui)]_vars

C2_Witness ==
    /\ IsEvent("event", "BufEnter")
    /\ OverlayVisibilities(ui) = <<FALSE, FALSE, FALSE, FALSE>>
    /\ ui.mode = "visual"

\* C3: whenever the editor process emits "error", the install-help screen
\* is displayed and the error flag is set, whatever the order of init(),
\* render(element) and the error.
C3_ErrorShowsInstallHelp ==
    event.op = "error" => installHelp /\ errorStartingNeovim

\* C4: a logInfo, logWarning or logError event appends exactly one entry to
\* the UI log, of type "info", "warning" or "error" and with the event's
\* message, and leaves the mode, the cursor line and column visibility, the
\* overlay visibilities and the pending update timer as they were.
C4_LogAppendsOneEntry ==
    [][event'.op \in LogTypes =>
         /\ ui'.logs = Append(ui.logs, ui'.logs[Len(ui'.logs)])
         /\ ui'.logs[Len(ui'.logs)].message = event'.arg
         /\ event'.op = "logInfo" => ui'.logs[Len(ui'.logs)].type = "info"
         /\ event'.op = "logWarning" => ui'.logs[Len(ui'.logs)].type = "warning"
         /\ event'.op = "logError" => ui'.logs[Len(ui'.logs)].type = "error"
         /\ ui'.mode = ui.mode
         /\ ui'.cursorLineVisible = ui.cursorLineVisible
         /\ ui'.cursorColumnVisible = ui.cursorColumnVisible
         /\ OverlayVisibilities(ui') = OverlayVisibilities(ui)
         /\ pendingTimeout' = pendingTimeout
         /\ timers' = timers]_vars

C4_Witness ==
    /\ IsEvent("logWarning", "m2")
    /\ Len(ui.logs) = 2
    /\ ui.logs[1].type = "error"
    /\ ui.logs[2] = [type |-> "warning", message |-> "m2", details |-> "null"]
    /\ pendingTimeout # NoTimer
    /\ ui.completionsVisible
    /\ ui.mode = "insert"

\* C5: there is no retry after a start failure: once the error flag is
\* set it stays set, and start is called on the editor process only by
\* init(), once per call.
C5_NoRetryAfterStartError ==
    [][/\ errorStartingNeovim => errorStartingNeovim'
       /\ startCalls' # startCalls =>
              event'.op = "init" /\ startCalls' = startCalls + 1]_vars

C5_Witness ==
    /\ errorStartingNeovim
    /\ startErrors = 1
    /\ startCalls = 2
    /\ event.op = "init"

\* C6: once a mode-change event has been handled, the mode of the UI
\* state is the newMode of the latest one, and no other event changes the
\* mode.
C6_ModeReflectsLatestModeChange ==
    /\ [](lastMode # NoMode => ui.mode = lastMode)
    /\ [][event'.op # "mode-change" => ui'.mode = ui.mode]_vars

C6_Witness ==
    /\ lastMode = "visual"
    /\ ui.mode = "visual"
    /\ event.op = "action"
    /\ screen.mode = "insert"

\* C7: from the end of the constructor on exactly one animation-frame
\* callback is pending, and a frame calls the renderer's update once and
\* requests one next frame.
C7_OneFramePending ==
    /\ constructed => frames = 1
    /\ event.op = "frame" =>
           /\ Cardinality(CallsOf("renderer.update")) = 1
           /\ Cardinality(CallsOf("requestAnimationFrame")) = 1

C7_Witness ==
    /\ event.op = "frame"
    /\ frames = 1
    /\ errorStartingNeovim
    /\ element

CursorUpdated == CallsOf("UI.setCursorPosition") # {}

\* C8: an "action" event is eventually followed by a cursor-position
\* update of the UI; an update takes the position the screen model has
\* after the action, so with no update pending the UI shows the screen
\* model's position.
C8_ActionLeadsToCursorUpdate ==
    /\ (event.op = "action") ~> CursorUpdated
    /\ [](CursorUpdated => ui.cursorPosition = screen.cursor)
    /\ [](constructed /\ pendingTimeout = NoTimer =>
              ui.cursorPosition = screen.cursor)

C8_Witness ==
    /\ event.op = "timer"
    /\ CursorUpdated
    /\ screen.cursor = <<0, 1>>
    /\ ui.cursorPosition = <<0, 1>>

\* C9: _pendingTimeout is non-null iff exactly one update timer is
\* outstanding (and it is that timer), an action that arrives while a timer
\* is outstanding schedules no second one, and every _onUpdate leaves
\* _pendingTimeout null and no timer outstanding.
C9_TimersCoalesced ==
    /\ [](/\ pendingTimeout # NoTimer <=> Cardinality(timers) = 1
          /\ pendingTimeout # NoTimer => timers = {pendingTimeout}
          /\ Cardinality(timers) <= 1
          /\ event.op \in {"timer", "config", "constructor"} =>
                 pendingTimeout = NoTimer /\ timers = {})
    /\ [][event'.op = "action" /\ pendingTimeout # NoTimer =>
              timers' = timers /\ pendingTimeout' = pendingTimeout]_vars

C9_Witness ==
    /\ IsEvent("action", "UPDATE_BG")
    /\ ui.cursorPosition # screen.cursor
    /\ timers = {pendingTimeout}

\* C10: after an "action" event the colors of the UI state are the screen
\* model's colors after the action was dispatched to it, and the renderer
\* got the action before the screen model did.
C10_ColorsFollowScreen ==
    event.op = "action" =>
        /\ ui.foregroundColor = screen.foregroundColor
        /\ ui.backgroundColor = screen.backgroundColor
        /\ CallsOf("renderer.onAction") # {}
        /\ CallsOf("screen.dispatch") # {}
        /\ \A i \in CallsOf("renderer.onAction"), j \in CallsOf("screen.dispatch") :
               i < j

C10_Witness ==
    /\ IsEvent("action", "UPDATE_FG")
    /\ screen.foregroundColor = "black"
    /\ ui.foregroundColor = "black"

\* C11: once every working-directory query issued by the DirChanged events
\* has resolved, the process working directory is the directory returned
\* for the query of the latest DirChanged event, in whatever order the
\* queries resolved.
C11_CwdFollowsLatestQuery ==
    latestQuery # NoQuery /\ queries = {} => cwd = latestDir

\* everything but the latest event and the calls its handler made
State ==
    <<constructed, config, cursorLine, cursorColumn, pendingTimeout,
      element, errorStartingNeovim, ui, screen, errorDetails, installHelp,
      rendererStarted, timers, frames, startCalls, initCalls, startErrors,
      queries, cwd>>

\* the names of the calls the latest handler made, in order
CallNames == [i \in DOMAIN calls |-> calls[i].name]

ResizeNames ==
    <<"deltaRegionManager.dirtyAllCells", "neovim.resize", "renderer.onResize">>

\* C12: before render(element) a window resize changes nothing and makes no
\* call; after it every resize dirties all cells, then sends the element's
\* width and height to the editor process, then notifies the renderer, and
\* render(element) does one such resize itself.
C12_ResizeNeedsElement ==
    /\ [][event'.op = "resize" /\ ~element =>
              calls' = <<>> /\ State' = State]_vars
    /\ [](event.op = "resize" /\ element =>
              CallNames = ResizeNames /\ calls[2].arg = elementSize)
    /\ [](event.op = "render" =>
              /\ CallNames = <<"renderer.start">> \o ResizeNames
              /\ calls[3].arg = elementSize)

C12_Witness ==
    /\ event.op = "resize"
    /\ element
    /\ elementSize = [width |-> 1024, height |-> 768]
    /\ CallNames = ResizeNames
    /\ calls[2].arg = elementSize

CompletionKeys == {"<enter>", "<C-n>", "<C-p>"}

\* the condition under which a key is input for the editor process
IsForwarded(key, u, sc) ==
    /\ key # "<f3>"
    /\ ~u.popupMenuVisible
    /\ ~(u.completionsVisible /\ key \in CompletionKeys)
    /\ key \notin {"<f12>", "<C-pageup>", "<C-pagedown>"}
    /\ ~(sc.mode = "normal" /\ key \in {"<C-p>", "<C-P>"})

\* C13: a keydown is forwarded to the editor process as input iff the key
\* is not <f3>, the popup menu is not open, the key is not one the visible
\* completions take, it is not <f12>, <C-pageup> or <C-pagedown>, and it is
\* not <C-p> or <C-P> with the screen in normal mode.
C13_KeyForwardedIff ==
    [][event'.op = "keydown" =>
         /\ CallsOf("neovim.input")' # {} <=> IsForwarded(event'.arg, ui, screen)
         /\ \A i \in CallsOf("neovim.input")' : calls'[i].arg = event'.arg]_vars

C13_Witness ==
    /\ IsEvent("keydown", "<C-p>")
    /\ screen.mode = "insert"
    /\ ui.mode = "normal"
    /\ ~ui.popupMenuVisible
    /\ ~ui.completionsVisible
    /\ calls = <<[name |-> "neovim.input", arg |-> "<C-p>"]>>

\* who takes a key: the formatter, the popup menu, the completions or the
\* global shortcuts
KeyLayer(key, u) ==
    IF key = "<f3>" THEN "format"
    ELSE IF u.popupMenuVisible THEN "menu"
    ELSE IF u.completionsVisible /\ key \in CompletionKeys THEN "completions"
    ELSE "global"

LayerHandlers(layer) ==
    CASE layer = "format" -> {"formatter.formatBuffer"}
      [] layer = "menu" -> {"UI.hidePopupMenu", "UI.selectMenuItem",
                            "UI.nextMenuItem", "UI.previousMenuItem"}
      [] layer = "completions" -> {"autoCompletion.complete",
                                   "UI.nextCompletion", "UI.previousCompletion"}
      [] layer = "global" -> {"commandManager.executeCommand", "quickOpen.show",
                              "tasks.show", "multiProcess.focusPreviousInstance",
                              "multiProcess.focusNextInstance", "neovim.input"}

\* what <C-p> does
ControlP(u, sc) ==
    IF u.popupMenuVisible THEN "UI.previousMenuItem"
    ELSE IF u.completionsVisible THEN "UI.previousCompletion"
    ELSE IF sc.mode = "normal" THEN "quickOpen.show"
    ELSE "neovim.input"

\* C14: a keydown triggers at most one handler: <f3> formats the buffer,
\* also with the popup menu open; else an open popup menu takes the key;
\* else visible completions take <enter>, <C-n> and <C-p>; else the global
\* shortcuts apply.  <C-p> is previous menu item, previous completion,
\* quick-open or editor input, in that order.
C14_OneHandlerByPriority ==
    [][event'.op = "keydown" =>
         /\ Len(calls') <= 1
         /\ \A i \in DOMAIN calls' :
                calls'[i].name \in LayerHandlers(KeyLayer(event'.arg, ui))
         /\ KeyLayer(event'.arg, ui) # "menu" => Len(calls') = 1
         /\ event'.arg = "<C-p>" =>
                Len(calls') = 1 /\ calls'[1].name = ControlP(ui, screen)]_vars

C14_Witness ==
    /\ IsEvent("keydown", "<f3>")
    /\ ui.popupMenuVisible
    /\ ui.completionsVisible
    /\ calls = <<[name |-> "formatter.formatBuffer", arg |-> ""]>>

\* C15: once a mode-change has been handled, the error overlay's details
\* are hidden iff the latest mode-change was to "insert".
C15_ErrorDetailsFollowMode ==
    lastMode # NoMode => (errorDetails <=> lastMode # "insert")

C15_Witness ==
    /\ lastMode = "visual"
    /\ errorDetails
    /\ event.op = "config"

\* C16: while the mode is "cmdline" neither the cursor line nor the cursor
\* column is visible, whatever is handled before the next mode-change.
C16_CmdlineHidesCursorLine ==
    lastMode = "cmdline" => ~ui.cursorLineVisible /\ ~ui.cursorColumnVisible

\* C17: the renderer is not asked to update before render(element) has
\* started it.
C17_UpdateAfterStart ==
    CallsOf("renderer.update") # {} => rendererStarted

====
